---- MODULE Spec2Model ----
(***************************************************************************)
(* Model of the weather page: the SearchBar component (debounced           *)
(* suggestion lookup, suggestion selection, form submit, geolocation) and  *)
(* the page-level weather fetch it calls through onSearch.                 *)
(*                                                                         *)
(* Text is a sequence of one-character strings.  A JavaScript value that   *)
(* may be undefined is a record: [t |-> "undefined"] or                    *)
(* [t |-> "string", s |-> <text>].                                         *)
(***************************************************************************)
EXTENDS Integers, Sequences, FiniteSets, TLC

\* ------------------------------------------------------------------ bounds
\* most geocoding search requests in flight at once
MaxInFlight == 2
\* most weather fetches in flight at once
MaxFetches == 2
\* most debounce timers pending at once
MaxTimers == 2

\* ------------------------------------------------------- program constants
\* setTimeout(..., 300)
DebounceMs == 300
\* if (query.length < 3)
MinQueryLen == 3
\* the hours=24 parameter of the weather request
HoursRequested == 24
\* the clock advances in steps of a third of the debounce delay
TickMs == DebounceMs \div 3
\* the elapsed time since the last input change is counted up to here
SinceCap == DebounceMs + TickMs

\* ------------------------------------------------------------------- text
\* the texts typed into the input: empty, two characters, one character padded
\* with spaces to three, and two of three characters
Texts ==
  { <<>>,
    <<"a", "a">>,
    <<" ", " ", "a">>,
    <<"a", "a", "a">>,
    <<"a", "a", "b">> }

Undefined == [t |-> "undefined"]
Str(s) == [t |-> "string", s |-> s]

\* JavaScript truthiness of a string-or-undefined value
Truthy(v) == v.t = "string" /\ v.s # <<>>
\* a || b
JsOr(a, b) == IF Truthy(a) THEN a ELSE b
\* ${v} inside a template literal
ToText(v) == IF v.t = "string" THEN v.s ELSE <<"u", "n", "d", "e", "f", "i", "n", "e", "d">>

IsSpace(c) == c = " "

RECURSIVE TrimStart(_)
TrimStart(s) ==
  IF s = <<>> THEN <<>>
  ELSE IF IsSpace(Head(s)) THEN TrimStart(Tail(s)) ELSE s

RECURSIVE TrimEnd(_)
TrimEnd(s) ==
  IF s = <<>> THEN <<>>
  ELSE IF IsSpace(s[Len(s)]) THEN TrimEnd(SubSeq(s, 1, Len(s) - 1)) ELSE s

\* String.prototype.trim
Trim(s) == TrimEnd(TrimStart(s))

\* encodeURIComponent on one character: letters pass, space and comma are escaped
EncodeChar(c) ==
  IF c = " " THEN <<"%", "2", "0">>
  ELSE IF c = "," THEN <<"%", "2", "C">>
  ELSE <<c>>

RECURSIVE encodeURIComponent(_)
encodeURIComponent(s) ==
  IF s = <<>> THEN <<>> ELSE EncodeChar(Head(s)) \o encodeURIComponent(Tail(s))

\* what the server reads back from the q parameter
RECURSIVE decodeURIComponent(_)
decodeURIComponent(s) ==
  IF s = <<>> THEN <<>>
  ELSE IF Head(s) = "%" /\ Len(s) >= 3
       THEN (IF SubSeq(s, 2, 3) = <<"2", "0">> THEN <<" ">> ELSE <<",">>)
            \o decodeURIComponent(SubSeq(s, 4, Len(s)))
       ELSE <<Head(s)>> \o decodeURIComponent(Tail(s))

CommaSpace == <<",", " ">>
Brasil == <<"B", "r", "a", "s", "i", "l">>

\* `${city}, ${state}, Brasil`
LocationString(city, state) ==
  ToText(city) \o CommaSpace \o ToText(state) \o CommaSpace \o Brasil

\* ------------------------------------------------------------- suggestions
\* the address of a geocoding result (place_id and display_name are only
\* rendered, never read by the logic)
Address(c, t, s) == [city |-> c, town |-> t, state |-> s]

\* the results a response is made of: a city with a town and a state, a
\* town with its state, a city without state, a place with no city and an
\* empty town
CityItem == Address(Str(<<"C">>), Str(<<"T">>), Str(<<"S">>))
TownItem == Address(Undefined, Str(<<"T">>), Str(<<"S">>))
StatelessItem == Address(Str(<<"C">>), Undefined, Undefined)
PlaceItem == Address(Undefined, Str(<<>>), Str(<<"S">>))

\* the bodies of the search responses: no result, one result of a kind, and
\* mixes in several orders
Responses ==
  { <<>>,
    <<CityItem>>,
    <<PlaceItem>>,
    <<StatelessItem>>,
    <<CityItem, TownItem>>,
    <<TownItem, CityItem>>,
    <<PlaceItem, CityItem, StatelessItem>>,
    <<TownItem, PlaceItem, CityItem>> }

\* the longest response
MaxResults == CHOOSE n \in {Len(r) : r \in Responses} : \A r \in Responses : Len(r) <= n

\* item.address.city || item.address.town
HasCityOrTown(item) == Truthy(JsOr(item.city, item.town))

\* a faulty variant: the filter reads the state instead of the city and the town
FilterSuggestionsByState(data) == SelectSeq(data, LAMBDA item : Truthy(item.state))

\* data.filter(item => item.address.city || item.address.town)
FilterSuggestions(data) == SelectSeq(data, HasCityOrTown)

\* a faulty variant: the town is preferred over the city
SuggestionCityTownFirst(sg) == JsOr(JsOr(sg.town, sg.city), Str(<<>>))

\* the city and state a suggestion is rendered and selected with
SuggestionCity(sg) == JsOr(JsOr(sg.city, sg.town), Str(<<>>))
SuggestionState(sg) == JsOr(sg.state, Str(<<>>))

\* a faulty variant: a suggestion is rendered whenever it has a city
IsRenderedCityOnly(sg) == Truthy(SuggestionCity(sg))

\* if (!city || !state) return null
IsRendered(sg) == Truthy(SuggestionCity(sg)) /\ Truthy(SuggestionState(sg))

\* the buttons on screen: showSuggestions && suggestions.length > 0 && ...
RenderedSuggestions(show, list) ==
  IF show /\ Len(list) > 0 THEN SelectSeq(list, IsRendered) ELSE <<>>


\* ------------------------------------------------------------------ state
Null == [t |-> "null"]
Msg(m) == [t |-> "string", s |-> m]

VARIABLES
  \* SearchBar: useState / useRef
  location, suggestions, geoError, isGeoLoading, showSuggestions, searchTimeout,
  \* the browser: pending setTimeout callbacks, geocoding searches in flight,
  \* where the running getCurrentLocation call is suspended
  timers, lookups, geoPc,
  \* Home: useState, and weather fetches in flight
  weather, loading, error, wfetches,
  \* history: the location of the latest fetchWeatherData call, and whether
  \* every fetch has succeeded since the last call made with none in flight
  lastRequested, groupOk,
  \* history: time since the last input change and its text, whether a search
  \* was issued and whether the debounced lookup ran since then
  sinceChange, lastChange, issuedSinceChange, lookupRan,
  \* history: whether the last input change came less than the debounce delay
  \* after the one before it
  inBurst,
  \* history: whether a suggestion was selected or the panel with its
  \* suggestions dismissed by a click outside, with no input change or focus since
  dismissed,
  \* history: the step just taken, with its inputs
  ev

searchVars == <<location, suggestions, showSuggestions, searchTimeout, timers, lookups>>
geoVars == <<geoError, isGeoLoading, geoPc>>
pageHist == <<lastRequested, groupOk>>
pageVars == <<weather, loading, error, wfetches, pageHist>>
changeHist == <<sinceChange, lastChange, issuedSinceChange, lookupRan, inBurst, dismissed>>
vars == <<searchVars, geoVars, pageVars, changeHist, ev>>

\* a step no property reads the inputs of
Other == [kind |-> "other"]

Init ==
  /\ location = <<>>
  /\ suggestions = <<>>
  /\ geoError = Null
  /\ isGeoLoading = FALSE
  /\ showSuggestions = FALSE
  /\ searchTimeout = 0
  /\ timers = {}
  /\ lookups = <<>>
  /\ geoPc = "idle"
  /\ weather = Null
  /\ loading = FALSE
  /\ error = Null
  /\ wfetches = <<>>
  /\ lastRequested = <<>>
  /\ groupOk = TRUE
  /\ sinceChange = SinceCap
  /\ lastChange = <<>>
  /\ issuedSinceChange = FALSE
  /\ lookupRan = FALSE
  /\ inBurst = FALSE
  /\ dismissed = FALSE
  /\ ev = Other

Min(a, b) == IF a < b THEN a ELSE b
RemoveAt(s, i) == SubSeq(s, 1, i - 1) \o SubSeq(s, i + 1, Len(s))

\* ------------------------------------------------------------ Home (page)
WeatherErrorMsg == "Erro ao buscar dados meteorológicos"
FetchOutcomes == {"ok", "httpError", "networkError", "parseError"}

\* a number of the response, in tenths, or undefined
Num(n) == [t |-> "number", n |-> n]
\* x || 0
NumOr0(v) == IF v.t = "number" THEN v.n ELSE 0
\* Math.round, of a number given in tenths
Round(tenths) == (tenths + 5) \div 10

\* data.currentConditions: with and without a precipitation probability
RainyConditions ==
  [temp |-> 215, windspeed |-> 94, precipprob |-> Num(305), humidity |-> Num(655),
   conditions |-> "Chuva"]
DryConditions ==
  [temp |-> -15, windspeed |-> 126, precipprob |-> Undefined, humidity |-> Num(0),
   conditions |-> "Limpo"]

\* data.days[0].hours with n records
Hours(n) == [i \in 1..n |-> [datetime |-> i, temp |-> 10 * i + 5, conditions |-> "Limpo"]]

\* the bodies of the weather responses: two hours, the hours asked for, and
\* one hour more than asked for
WeatherBodies ==
  { [currentConditions |-> RainyConditions, hours |-> Hours(2)],
    [currentConditions |-> DryConditions, hours |-> Hours(HoursRequested)],
    [currentConditions |-> RainyConditions, hours |-> Hours(HoursRequested + 1)] }

NoBody == [currentConditions |-> DryConditions, hours |-> <<>>]

\* fetchWeatherData up to its await: the flags and the request
fetchWeatherData(loc) ==
  /\ Len(wfetches) < MaxFetches
  /\ loading' = TRUE
  /\ error' = Null
  /\ wfetches' = Append(wfetches, [path |-> encodeURIComponent(loc)])
  /\ lastRequested' = loc
  /\ groupOk' = IF wfetches = <<>> THEN TRUE ELSE groupOk
  /\ UNCHANGED weather

\* data.days[0].hours.map(...)
HourlyForecast(hours) ==
  [i \in 1..Len(hours) |->
     [datetime |-> hours[i].datetime, temp |-> Round(hours[i].temp),
      conditions |-> hours[i].conditions]]

\* the snapshot built from the response to a request; the server resolves the
\* address it was asked for
Snapshot(req, body) ==
  [location |-> decodeURIComponent(req.path),
   temperature |-> Round(body.currentConditions.temp),
   windSpeed |-> Round(body.currentConditions.windspeed),
   precipitation |-> Round(NumOr0(body.currentConditions.precipprob)),
   humidity |-> Round(NumOr0(body.currentConditions.humidity)),
   conditions |-> body.currentConditions.conditions,
   hourlyForecast |-> HourlyForecast(body.hours)]

\* a completion of a weather fetch: the request, the response and what
\* was in flight before
WeatherEvent(req, outcome, body) ==
  [kind |-> "weather", ok |-> outcome = "ok", req |-> req, body |-> body]

\* a faulty variant: no finally block, a failure leaves the loading flag set
FetchWeatherDoneNoFinally(i, outcome, body) ==
  /\ i \in 1..Len(wfetches)
  /\ wfetches' = RemoveAt(wfetches, i)
  /\ IF outcome = "ok"
       THEN weather' = Snapshot(wfetches[i], body) /\ loading' = FALSE /\ UNCHANGED error
       ELSE error' = Msg(WeatherErrorMsg) /\ UNCHANGED <<weather, loading>>
  /\ groupOk' = (groupOk /\ outcome = "ok")
  /\ ev' = WeatherEvent(wfetches[i], outcome, body)
  /\ UNCHANGED <<lastRequested, searchVars, geoVars, changeHist>>

\* a faulty variant: a failure discards the stored snapshot
FetchWeatherDoneClearsSnapshot(i, outcome, body) ==
  /\ i \in 1..Len(wfetches)
  /\ wfetches' = RemoveAt(wfetches, i)
  /\ IF outcome = "ok"
       THEN weather' = Snapshot(wfetches[i], body) /\ UNCHANGED error
       ELSE error' = Msg(WeatherErrorMsg) /\ weather' = Null
  /\ loading' = FALSE
  /\ groupOk' = (groupOk /\ outcome = "ok")
  /\ ev' = WeatherEvent(wfetches[i], outcome, body)
  /\ UNCHANGED <<lastRequested, searchVars, geoVars, changeHist>>

\* fetchWeatherData from its await on: the response of request i arrives
FetchWeatherDone(i, outcome, body) ==
  /\ i \in 1..Len(wfetches)
  /\ wfetches' = RemoveAt(wfetches, i)
  /\ IF outcome = "ok"
       THEN weather' = Snapshot(wfetches[i], body) /\ UNCHANGED error
       ELSE error' = Msg(WeatherErrorMsg) /\ UNCHANGED weather
  /\ loading' = FALSE
  /\ groupOk' = (groupOk /\ outcome = "ok")
  /\ ev' = WeatherEvent(wfetches[i], outcome, body)
  /\ UNCHANGED <<lastRequested, searchVars, geoVars, changeHist>>

\* a faulty variant: the weather cards are not hidden by an error
ShowWeatherDespiteError == weather # Null /\ ~loading

\* the three blocks of the page: the loader, the error text, the weather cards
ShowLoader == loading
ShowError == error # Null /\ ~loading
ShowWeather == weather # Null /\ ~loading /\ error = Null

\* ------------------------------------------------- SearchBar: suggestions
\* a faulty variant: the pending timer is not cancelled
ClearTimeoutSkipped(handle, ts) == ts

\* clearTimeout(searchTimeout.current), when the ref holds a handle
ClearTimeout(handle, ts) ==
  IF handle # 0 THEN {t \in ts : t.id # handle} ELSE ts

\* the handle setTimeout returns: the least one no pending timer has
NewTimerId(ts) ==
  CHOOSE n \in 1..(Cardinality(ts) + 1) :
    /\ \A t \in ts : t.id # n
    /\ \A m \in 1..(n - 1) : \E t \in ts : t.id = m

handleInputChange(value) ==
  LET kept == ClearTimeout(searchTimeout, timers)
      id == NewTimerId(kept)
  IN /\ value # location
     /\ Cardinality(kept) < MaxTimers
     /\ location' = value
     /\ timers' = kept \cup {[id |-> id, value |-> value, remaining |-> DebounceMs]}
     /\ searchTimeout' = id
     /\ sinceChange' = 0
     /\ lastChange' = value
     /\ issuedSinceChange' = FALSE
     /\ lookupRan' = FALSE
     /\ inBurst' = (sinceChange < DebounceMs)
     /\ dismissed' = FALSE
     /\ ev' = Other
     /\ UNCHANGED <<suggestions, showSuggestions, lookups, geoVars, pageVars>>

\* time passes; a timer that is due runs before the clock moves on
Tick ==
  /\ \A t \in timers : t.remaining >= TickMs
  /\ timers # {} \/ sinceChange < SinceCap
  /\ timers' = {[t EXCEPT !.remaining = @ - TickMs] : t \in timers}
  /\ sinceChange' = Min(sinceChange + TickMs, SinceCap)
  /\ ev' = Other
  /\ UNCHANGED <<location, suggestions, showSuggestions, searchTimeout, lookups,
                 geoVars, pageVars, lastChange, issuedSinceChange, lookupRan, inBurst,
                 dismissed>>

\* if (query.length < 3)
TooShort(query) == Len(query) < MinQueryLen

\* fetchSuggestions up to its await
fetchSuggestions(query) ==
  IF TooShort(query)
    THEN /\ suggestions' = <<>>
         /\ UNCHANGED <<lookups, issuedSinceChange>>
    ELSE /\ Len(lookups) < MaxInFlight
         /\ lookups' = Append(lookups, [q |-> encodeURIComponent(query), overtaken |-> FALSE])
         /\ issuedSinceChange' = TRUE
         /\ UNCHANGED suggestions

\* the setTimeout callback
TimerFire ==
  \E t \in timers :
    /\ t.remaining = 0
    /\ timers' = timers \ {t}
    /\ fetchSuggestions(t.value)
    /\ lookupRan' = TRUE
    /\ ev' = [kind |-> "timer", value |-> t.value, issued |-> ~TooShort(t.value)]
    /\ UNCHANGED <<location, showSuggestions, searchTimeout, geoVars, pageVars,
                   sinceChange, lastChange, inBurst, dismissed>>

\* the requests still in flight once request i has completed: the ones issued
\* before it have been overtaken
AfterCompletion(reqs, i) ==
  [j \in 1..(Len(reqs) - 1) |->
     IF j < i THEN [reqs[j] EXCEPT !.overtaken = TRUE] ELSE reqs[j + 1]]

\* a faulty variant: the response of a request that a later one has overtaken is dropped
LookupDoneLatestOnly(i, outcome, data) ==
  /\ i \in 1..Len(lookups)
  /\ lookups' = AfterCompletion(lookups, i)
  /\ IF lookups[i].overtaken
       THEN UNCHANGED <<suggestions, showSuggestions>>
       ELSE IF outcome = "ok"
              THEN /\ suggestions' = FilterSuggestions(data)
                   /\ showSuggestions' = TRUE
              ELSE /\ suggestions' = <<>>
                   /\ UNCHANGED showSuggestions
  /\ ev' = [kind |-> "lookup", ok |-> outcome = "ok", data |-> data,
            overtaken |-> lookups[i].overtaken]
  /\ UNCHANGED <<location, searchTimeout, timers, geoVars, pageVars, changeHist>>

\* fetchSuggestions from its await on: the response of request i arrives
LookupDone(i, outcome, data) ==
  /\ i \in 1..Len(lookups)
  /\ lookups' = AfterCompletion(lookups, i)
  /\ IF outcome = "ok"
       THEN /\ suggestions' = FilterSuggestions(data)
            /\ showSuggestions' = TRUE
       ELSE /\ suggestions' = <<>>
            /\ UNCHANGED showSuggestions
  /\ ev' = [kind |-> "lookup", ok |-> outcome = "ok", data |-> data,
            overtaken |-> lookups[i].overtaken]
  /\ UNCHANGED <<location, searchTimeout, timers, geoVars, pageVars, changeHist>>

\* onFocus={() => location.length >= 3 && setShowSuggestions(true)}
handleFocus ==
  /\ showSuggestions' = (showSuggestions \/ Len(location) >= MinQueryLen)
  /\ dismissed' = FALSE
  /\ ev' = Other
  /\ UNCHANGED <<location, suggestions, searchTimeout, timers, lookups, geoVars,
                 pageVars, sinceChange, lastChange, issuedSinceChange, lookupRan,
                 inBurst>>

handleClickOutside ==
  /\ showSuggestions' = FALSE
  /\ dismissed' = (dismissed \/ RenderedSuggestions(showSuggestions, suggestions) # <<>>)
  /\ ev' = Other
  /\ UNCHANGED <<location, suggestions, searchTimeout, timers, lookups, geoVars,
                 pageVars, sinceChange, lastChange, issuedSinceChange, lookupRan,
                 inBurst>>

\* a click on the k-th button of the panel
handleSuggestionClick(k) ==
  LET shown == RenderedSuggestions(showSuggestions, suggestions)
  IN /\ k \in 1..Len(shown)
     /\ LET suggestion == shown[k]
            city == SuggestionCity(suggestion)
            state == SuggestionState(suggestion)
            locationString == LocationString(city, state)
        IN /\ location' = locationString
           /\ showSuggestions' = FALSE
           /\ fetchWeatherData(locationString)
           /\ ev' = [kind |-> "select", sel |-> suggestion]
     /\ dismissed' = TRUE
     /\ UNCHANGED <<suggestions, searchTimeout, timers, lookups, geoVars, sinceChange,
                    lastChange, issuedSinceChange, lookupRan, inBurst>>

handleSubmit ==
  /\ Trim(location) # <<>>
  /\ fetchWeatherData(location)
  /\ ev' = Other
  /\ UNCHANGED <<searchVars, geoVars, changeHist>>

\* ------------------------------------------------- SearchBar: geolocation
\* GeolocationPositionError.PERMISSION_DENIED, POSITION_UNAVAILABLE, TIMEOUT
PERMISSION_DENIED == 1
POSITION_UNAVAILABLE == 2
TIMEOUT == 3
\* the codes a position request fails with: the three named ones and another
ErrorCodes == {PERMISSION_DENIED, POSITION_UNAVAILABLE, TIMEOUT, TIMEOUT + 1}

UnsupportedMsg == "Seu navegador não suporta geolocalização"
DeniedMsg == "Permissão de localização negada"
UnavailableMsg == "Informações de localização indisponíveis"
TimeoutMsg == "Tempo de requisição de localização expirou"
OtherCodeMsg == "Erro ao obter localização"
DetermineMsg == "Erro ao determinar sua localização"
\* the messages of the errors thrown inside the try block
ReverseHttpMsg == "Erro ao buscar localização"
NotResolvedMsg == "Não foi possível determinar sua localização"

\* what the try block throws: a GeolocationPositionError or another Error
PositionError(code) == [platform |-> TRUE, code |-> code, message |-> "GeolocationPositionError"]
OtherError(message) == [platform |-> FALSE, code |-> 0, message |-> message]

\* a faulty variant: the timeout code falls through to the default message
GeoCatchNoTimeout(err) ==
  IF err.platform
    THEN CASE err.code = PERMISSION_DENIED -> "Permissão de localização negada"
           [] err.code = POSITION_UNAVAILABLE -> "Informações de localização indisponíveis"
           [] OTHER -> "Erro ao obter localização"
    ELSE "Erro ao determinar sua localização"

\* the catch block: the message set for a caught error
GeoCatch(err) ==
  IF err.platform
    THEN CASE err.code = PERMISSION_DENIED -> DeniedMsg
           [] err.code = POSITION_UNAVAILABLE -> UnavailableMsg
           [] err.code = TIMEOUT -> TimeoutMsg
           [] OTHER -> OtherCodeMsg
    ELSE DetermineMsg

\* the address of a reverse-geocode response
GeoAddress(c, t, v, m, s) ==
  [city |-> c, town |-> t, village |-> v, municipality |-> m, state |-> s]

NoAddress == GeoAddress(Undefined, Undefined, Undefined, Undefined, Undefined)

GeoAddresses ==
  { GeoAddress(Str(<<"C">>), Str(<<"T">>), Undefined, Undefined, Str(<<"S">>)),
    GeoAddress(Undefined, Str(<<"T">>), Str(<<"V">>), Undefined, Str(<<"S">>)),
    GeoAddress(Str(<<>>), Undefined, Str(<<"V">>), Str(<<"M">>), Str(<<"S">>)),
    GeoAddress(Undefined, Undefined, Undefined, Str(<<"M">>), Str(<<"S">>)),
    GeoAddress(Str(<<"C">>), Undefined, Undefined, Undefined, Undefined),
    GeoAddress(Undefined, Undefined, Undefined, Undefined, Str(<<"S">>)),
    NoAddress }

\* a faulty variant: the town is not consulted
GeoCityNoTown(a) == JsOr(JsOr(a.city, a.village), a.municipality)

\* data.address.city || data.address.town || data.address.village || data.address.municipality
GeoCity(a) == JsOr(JsOr(JsOr(a.city, a.town), a.village), a.municipality)
GeoState(a) == a.state

\* a step of a geolocation activation: where it stands afterwards, the exit
\* path taken, the error thrown (if any) and the reverse-geocode address read
GeoEvent(outcome, path, err, address) ==
  [kind |-> "geo", outcome |-> outcome, path |-> path, err |-> err, address |-> address]

NoError == OtherError("")

\* a faulty variant: no finally block, the busy flag is left as it is
GeoFailKeepsBusy(err, path, address) ==
  /\ geoError' = Msg(GeoCatch(err))
  /\ UNCHANGED isGeoLoading
  /\ geoPc' = "idle"
  /\ ev' = GeoEvent("failed", path, err, address)

\* the catch and finally blocks, for the error err thrown on an exit path
GeoFail(err, path, address) ==
  /\ geoError' = Msg(GeoCatch(err))
  /\ isGeoLoading' = FALSE
  /\ geoPc' = "idle"
  /\ ev' = GeoEvent("failed", path, err, address)

\* a faulty variant: no return after the missing capability is reported
getCurrentLocationNoReturn(supported) ==
  /\ ~isGeoLoading
  /\ geoPc = "idle"
  /\ IF ~supported
       THEN /\ geoError' = Msg(UnsupportedMsg)
            /\ isGeoLoading' = FALSE
            /\ geoPc' = "position"
            /\ ev' = GeoEvent("failed", "unsupported", NoError, NoAddress)
       ELSE /\ geoError' = Null
            /\ isGeoLoading' = TRUE
            /\ geoPc' = "position"
            /\ ev' = GeoEvent("requesting", "position", NoError, NoAddress)
  /\ UNCHANGED <<searchVars, pageVars, changeHist>>

\* a click on the location button (disabled while isGeoLoading), up to the
\* first await
getCurrentLocation(supported) ==
  /\ ~isGeoLoading
  /\ geoPc = "idle"
  /\ IF ~supported
       THEN /\ geoError' = Msg(UnsupportedMsg)
            /\ isGeoLoading' = FALSE
            /\ geoPc' = "idle"
            /\ ev' = GeoEvent("failed", "unsupported", NoError, NoAddress)
       ELSE /\ geoError' = Null
            /\ isGeoLoading' = TRUE
            /\ geoPc' = "position"
            /\ ev' = GeoEvent("requesting", "position", NoError, NoAddress)
  /\ UNCHANGED <<searchVars, pageVars, changeHist>>

\* getCurrentPosition calls resolve: the reverse-geocode request goes out
PositionSuccess ==
  /\ geoPc = "position"
  /\ geoPc' = "reverse"
  /\ ev' = GeoEvent("requesting", "reverse", NoError, NoAddress)
  /\ UNCHANGED <<geoError, isGeoLoading, searchVars, pageVars, changeHist>>

\* getCurrentPosition calls reject
PositionFailure(code) ==
  /\ geoPc = "position"
  /\ GeoFail(PositionError(code), "platform", NoAddress)
  /\ UNCHANGED <<searchVars, pageVars, changeHist>>

\* the reverse-geocode fetch or response.json() fails
ReverseFailure(outcome) ==
  /\ geoPc = "reverse"
  /\ GeoFail(OtherError(IF outcome = "httpError" THEN ReverseHttpMsg ELSE outcome),
             outcome, NoAddress)
  /\ UNCHANGED <<searchVars, pageVars, changeHist>>

\* the reverse-geocode response arrives and parses
ReverseSuccess(address) ==
  /\ geoPc = "reverse"
  /\ LET city == GeoCity(address)
         state == GeoState(address)
     IN IF Truthy(city) /\ Truthy(state)
          THEN LET locationString == LocationString(city, state)
               IN /\ location' = locationString
                  /\ fetchWeatherData(locationString)
                  /\ isGeoLoading' = FALSE
                  /\ geoPc' = "idle"
                  /\ ev' = GeoEvent("resolved", "resolved", NoError, address)
                  /\ UNCHANGED geoError
          ELSE /\ GeoFail(OtherError(NotResolvedMsg), "unresolved", address)
               /\ UNCHANGED <<location, pageVars>>
  /\ UNCHANGED <<suggestions, showSuggestions, searchTimeout, timers, lookups,
                 changeHist>>

\* --------------------------------------------------------- specifications
FetchWeatherOkStep == \E i \in 1..MaxFetches, body \in WeatherBodies : FetchWeatherDone(i, "ok", body)
FetchWeatherFailStep == \E i \in 1..MaxFetches, o \in FetchOutcomes \ {"ok"} : FetchWeatherDone(i, o, NoBody)
FetchWeatherDoneStep == FetchWeatherOkStep \/ FetchWeatherFailStep
InputChangeStep == \E value \in Texts : handleInputChange(value)
LookupOkStep == \E i \in 1..MaxInFlight, data \in Responses : LookupDone(i, "ok", data)
LookupFailStep == \E i \in 1..MaxInFlight, o \in FetchOutcomes \ {"ok"} : LookupDone(i, o, <<>>)
SuggestionClickStep == \E k \in 1..MaxResults : handleSuggestionClick(k)
GetCurrentLocationStep == \E supported \in BOOLEAN : getCurrentLocation(supported)
PositionFailureStep == \E code \in ErrorCodes : PositionFailure(code)
ReverseFailureStep == \E o \in FetchOutcomes \ {"ok"} : ReverseFailure(o)
ReverseSuccessStep == \E address \in GeoAddresses : ReverseSuccess(address)

\* the search bar at rest after a lookup for a text of three characters or
\* more: no timer pending, no search in flight, the list holding the filtered
\* results of some response, the panel open or dismissed.  SearchSpec reaches
\* each of these states.
PanelInit ==
  /\ location \in {t \in Texts : ~TooShort(t)}
  /\ suggestions \in {FilterSuggestions(data) : data \in Responses}
  /\ showSuggestions \in BOOLEAN
  /\ searchTimeout = 1
  /\ timers = {}
  /\ lookups = <<>>
  /\ geoError = Null
  /\ isGeoLoading = FALSE
  /\ geoPc = "idle"
  /\ weather = Null
  /\ loading = FALSE
  /\ error = Null
  /\ wfetches = <<>>
  /\ lastRequested = <<>>
  /\ groupOk = TRUE
  /\ sinceChange = SinceCap
  /\ lastChange = location
  /\ issuedSinceChange = TRUE
  /\ lookupRan = TRUE
  /\ inBurst = FALSE
  /\ dismissed = (~showSuggestions /\ RenderedSuggestions(TRUE, suggestions) # <<>>)
  /\ ev = Other

\* the suggestion pipeline: typing, the debounce timer, the searches
SearchNext ==
  \/ InputChangeStep
  \/ Tick
  \/ TimerFire
  \/ LookupOkStep
  \/ LookupFailStep
  \/ handleFocus
  \/ handleClickOutside

\* the geolocation pipeline and the page
GeoNext ==
  \/ GetCurrentLocationStep
  \/ PositionSuccess
  \/ PositionFailureStep
  \/ ReverseFailureStep
  \/ ReverseSuccessStep
  \/ FetchWeatherDoneStep

\* the suggestion panel, the form and the page
SelectNext ==
  \/ SuggestionClickStep
  \/ handleSubmit
  \/ handleFocus
  \/ handleClickOutside
  \/ FetchWeatherDoneStep

\* the two pipelines that hand a resolved location to the page, up to the
\* hand-over: the weather requests stay in flight
EmitNext ==
  \/ SuggestionClickStep
  \/ handleFocus
  \/ handleClickOutside
  \/ GetCurrentLocationStep
  \/ PositionSuccess
  \/ PositionFailureStep
  \/ ReverseFailureStep
  \/ ReverseSuccessStep

Next == SearchNext \/ SelectNext \/ EmitNext

SearchSpec == Init /\ [][SearchNext]_vars
GeoSpec == Init /\ [][GeoNext]_vars
SelectSpec == (Init \/ PanelInit) /\ [][SelectNext]_vars
EmitSpec == (Init \/ PanelInit) /\ [][EmitNext]_vars
Spec == Init /\ [][Next]_vars

\* ------------------------------------------------------------ properties
\* a field that holds a non-empty text
HasName(v) == v.t = "string" /\ Len(v.s) > 0
LacksCityAndTown(item) == ~HasName(item.city) /\ ~HasName(item.town)
NamedOnly(data) == SelectSeq(data, LAMBDA item : ~LacksCityAndTown(item))

\* "C, S, Brasil"
CanonicalLocation(c, st) ==
  c \o <<",", " ">> \o st \o <<",", " ", "B", "r", "a", "s", "i", "l">>

\* the position of the first ", " in a text, 0 if there is none
FirstSeparator(s) ==
  LET at(i) == i < Len(s) /\ s[i] = "," /\ s[i + 1] = " "
  IN IF \E i \in 1..Len(s) : at(i)
       THEN CHOOSE i \in 1..Len(s) : at(i) /\ \A j \in 1..(i - 1) : ~at(j)
       ELSE 0
\* the text before the first ", " and the text between the first two
CityPart(s) == SubSeq(s, 1, FirstSeparator(s) - 1)
StatePart(s) ==
  LET rest == SubSeq(s, FirstSeparator(s) + 2, Len(s))
  IN SubSeq(rest, 1, FirstSeparator(rest) - 1)

PlatformMessages ==
  { "Permissão de localização negada",
    "Informações de localização indisponíveis",
    "Tempo de requisição de localização expirou",
    "Erro ao obter localização" }

\* C1: once the debounced lookup has run for an input text whose trimmed
\* length is below 3, and while the input still shows that text, no geocoding
\* request has been issued for it and the suggestion list is empty.
C1_ShortQueryNoRequest ==
  (lookupRan /\ location = lastChange /\ Len(Trim(lastChange)) < MinQueryLen)
    => (~issuedSinceChange /\ suggestions = <<>>)

\* C2: a geocoding request goes out only 300 ms after the last input change,
\* carries the text of that change, and is the only one issued since that
\* change: a burst of changes less than 300 ms apart yields at most one request.
C2_OneRequestPerBurst ==
  [][Len(lookups') > Len(lookups) =>
       /\ sinceChange = DebounceMs
       /\ ~issuedSinceChange
       /\ Len(lookups') = Len(lookups) + 1
       /\ SubSeq(lookups', 1, Len(lookups)) = lookups
       /\ decodeURIComponent(lookups'[Len(lookups')].q) = lastChange]_vars

\* C2 witness: the request of a burst of at least two changes has just gone out
C2_BurstRequestIssued ==
  /\ inBurst
  /\ ev.kind = "timer" /\ ev.issued
  /\ issuedSinceChange
  /\ lookups # <<>>

\* C3: whenever a successful lookup response is applied, the suggestion list
\* becomes exactly that response's results that have a city or a town, whether
\* or not a request issued later has completed before it.
C3_CompletionOrderDecides ==
  [][(Len(lookups') < Len(lookups) /\ ev'.kind = "lookup" /\ ev'.ok) =>
       /\ suggestions' = NamedOnly(ev'.data)
       /\ showSuggestions']_vars

\* C3 witness: the list holds the results of a request that a later-issued
\* request had already overtaken
C3_StaleResultsShown ==
  /\ ev.kind = "lookup" /\ ev.ok /\ ev.overtaken
  /\ suggestions # <<>>
  /\ suggestions = NamedOnly(ev.data)

\* C4: no result lacking both a city and a town is in the stored suggestion
\* list or among the rendered suggestions.
C4_NoUnnamedSuggestion ==
  LET shown == RenderedSuggestions(showSuggestions, suggestions)
  IN /\ \A i \in 1..Len(suggestions) : ~LacksCityAndTown(suggestions[i])
     /\ \A i \in 1..Len(shown) : ~LacksCityAndTown(shown[i])

\* C4 witness: a response holding a result without city and town was applied
\* and the panel shows the rest of it
C4_UnnamedResultDropped ==
  /\ ev.kind = "lookup" /\ ev.ok
  /\ \E i \in 1..Len(ev.data) : LacksCityAndTown(ev.data[i])
  /\ RenderedSuggestions(showSuggestions, suggestions) # <<>>

\* C5: selecting a suggestion with city-or-town C (the city when it has one)
\* and state S sets the input text to "C, S, Brasil", closes the panel and
\* starts exactly one weather fetch, for that same text.
C5_SelectionEmitsCanonical ==
  [][ev'.kind = "select" =>
       LET sg == ev'.sel
           c == IF HasName(sg.city) THEN sg.city.s ELSE sg.town.s
       IN /\ location' = CanonicalLocation(c, sg.state.s)
          /\ ~showSuggestions'
          /\ Len(wfetches') = Len(wfetches) + 1
          /\ SubSeq(wfetches', 1, Len(wfetches)) = wfetches
          /\ decodeURIComponent(wfetches'[Len(wfetches')].path) = location']_vars

\* C5 witness: a suggestion with both a city and a town was selected
C5_CityPreferredSelected ==
  /\ ev.kind = "select"
  /\ HasName(ev.sel.city) /\ HasName(ev.sel.town)
  /\ location = <<"C", ",", " ", "S", ",", " ", "B", "r", "a", "s", "i", "l">>
  /\ ~showSuggestions
  /\ wfetches # <<>>

\* C6: a location handed to the page by a suggestion selection or by the
\* geolocation pipeline has a non-empty city part and a non-empty state part,
\* and comes from a result that has a city-like field and a state.
C6_EmittedHasCityAndState ==
  [][(Len(wfetches') > Len(wfetches) /\ ev'.kind \in {"select", "geo"}) =>
       LET arg == decodeURIComponent(wfetches'[Len(wfetches')].path)
       IN /\ CityPart(arg) # <<>>
          /\ StatePart(arg) # <<>>
          /\ IF ev'.kind = "select"
               THEN /\ ~LacksCityAndTown(ev'.sel)
                    /\ HasName(ev'.sel.state)
               ELSE /\ \/ HasName(ev'.address.city) \/ HasName(ev'.address.town)
                       \/ HasName(ev'.address.village)
                       \/ HasName(ev'.address.municipality)
                    /\ HasName(ev'.address.state)]_vars

\* C6 witness: the geolocation pipeline has handed a location to the page
\* while a panel with a suggestion that has no state was open
C6_GeolocationEmitted ==
  /\ ev.kind = "geo" /\ ev.outcome = "resolved"
  /\ wfetches # <<>>
  /\ \E i \in 1..Len(suggestions) : ~HasName(suggestions[i].state)

\* C7: when no geolocation activation is running the busy flag is false, and
\* it is false right after an activation has ended, resolved or failed.
C7_BusyClearedOnExit ==
  /\ geoPc = "idle" => ~isGeoLoading
  /\ (ev.kind = "geo" /\ ev.outcome \in {"resolved", "failed"}) => ~isGeoLoading

\* C7 witness: an activation that set the busy flag has just failed at the
\* missing-city-or-state branch
C7_FailedActivationEnded ==
  /\ ev.kind = "geo" /\ ev.outcome = "failed" /\ ev.path = "unresolved"
  /\ ~isGeoLoading

\* C8: a rejected position request sets the error to the message of its
\* code (three named codes, one fallback), the four messages differ pairwise,
\* and nothing is handed to the page.
C8_PlatformFailureMessage ==
  [][(ev'.kind = "geo" /\ ev'.path = "platform") =>
       /\ geoError' =
            Msg(CASE ev'.err.code = PERMISSION_DENIED -> "Permissão de localização negada"
                  [] ev'.err.code = POSITION_UNAVAILABLE -> "Informações de localização indisponíveis"
                  [] ev'.err.code = TIMEOUT -> "Tempo de requisição de localização expirou"
                  [] OTHER -> "Erro ao obter localização")
       /\ Cardinality(PlatformMessages) = 4
       /\ wfetches' = wfetches
       /\ location' = location
       /\ ~isGeoLoading']_vars

\* C8 witness: a position request was rejected with a code other than the
\* three named ones
C8_OtherCodeFallback ==
  /\ ev.kind = "geo" /\ ev.path = "platform"
  /\ ev.err.code \notin {PERMISSION_DENIED, POSITION_UNAVAILABLE, TIMEOUT}
  /\ geoError = Msg("Erro ao obter localização")

\* C9: after a reverse-geocode response without state or without any
\* city-like field, the activation has failed and the error shown is the text
\* raised at that branch, which is none of the four platform messages.
C9_UnresolvedShowsRaisedText ==
  (ev.kind = "geo" /\ ev.path = "unresolved") =>
    /\ ev.outcome = "failed"
    /\ geoError = Msg("Não foi possível determinar sua localização")
    /\ geoError = Msg(ev.err.message)
    /\ geoError.s \notin PlatformMessages

\* C10: the error shown after a reverse-geocode response without city or state
\* differs from the error shown after a network or parse failure of the
\* reverse geocoding.
C10_SemanticMessageDistinct ==
  (ev.kind = "geo" /\ ev.path = "unresolved") =>
    geoError \notin {Msg(GeoCatch(OtherError(m))) :
                       m \in {ReverseHttpMsg, "networkError", "parseError"}}

\* the first of city, town, village and municipality that holds a non-empty text
FirstNamed(a) ==
  LET fields == <<a.city, a.town, a.village, a.municipality>>
      k == CHOOSE i \in 1..Len(fields) :
             HasName(fields[i]) /\ \A j \in 1..(i - 1) : ~HasName(fields[j])
  IN fields[k].s

\* C11: when a reverse geocode resolves, the city of the text placed in the
\* input and requested from the page is the first non-empty of city, town,
\* village and municipality of the response, in that order.
C11_FirstNamedPlaceUsed ==
  (ev.kind = "geo" /\ ev.outcome = "resolved") =>
    /\ HasName(ev.address.state)
    /\ \E f \in {"city", "town", "village", "municipality"} : HasName(ev.address[f])
    /\ location = CanonicalLocation(FirstNamed(ev.address), ev.address.state.s)
    /\ wfetches # <<>>
    /\ decodeURIComponent(wfetches[Len(wfetches)].path) = location

\* C11 witness: a response with a town and no city has resolved with the town
C11_TownUsedWithoutCity ==
  /\ ev.kind = "geo" /\ ev.outcome = "resolved"
  /\ ~HasName(ev.address.city) /\ HasName(ev.address.town)
  /\ CityPart(location) = ev.address.town.s
  /\ wfetches # <<>>

\* C12: an activation without the geolocation capability ends at once with
\* the capability message: no position request, no reverse geocode, nothing
\* handed to the page, the input untouched, the busy flag false.
C12_UnsupportedFailsAtOnce ==
  [][(ev'.kind = "geo" /\ ev'.path = "unsupported") =>
       /\ geoError' = Msg("Seu navegador não suporta geolocalização")
       /\ geoPc' = "idle"
       /\ ~isGeoLoading'
       /\ wfetches' = wfetches
       /\ location' = location]_vars

\* C12 witness: an activation has just ended at the missing capability
C12_UnsupportedReported ==
  /\ ev.kind = "geo" /\ ev.path = "unsupported"
  /\ geoError = Msg("Seu navegador não suporta geolocalização")
  /\ geoPc = "idle" /\ ~isGeoLoading

\* C13: the step that issues a weather request leaves the loading flag true,
\* and the step in which a weather request completes, with a snapshot or with
\* any failure, leaves it false.
C13_LoadingSetAndCleared ==
  [][/\ Len(wfetches') > Len(wfetches) => loading'
     /\ Len(wfetches') < Len(wfetches) => ~loading']_vars

\* C13 witness: a weather request has just failed and the flag is down
C13_FailureClearedLoading ==
  /\ ev.kind = "weather" /\ ~ev.ok
  /\ ~loading

\* C14: right after a weather fetch has completed with a response, the stored
\* snapshot is the one of that response and the error is null.
C14_SuccessClearsError ==
  (ev.kind = "weather" /\ ev.ok) =>
    /\ weather # Null
    /\ weather.location = decodeURIComponent(ev.req.path)
    /\ weather.conditions = ev.body.currentConditions.conditions
    /\ Len(weather.hourlyForecast) = Len(ev.body.hours)
    /\ error = Null

\* C15: the step in which a weather request fails sets the error to the
\* generic message and leaves the stored snapshot as it was.
C15_FailureKeepsSnapshot ==
  [][(ev'.kind = "weather" /\ ~ev'.ok /\ Len(wfetches') < Len(wfetches)) =>
       /\ error' = Msg("Erro ao buscar dados meteorológicos")
       /\ weather' = weather]_vars

\* C15 witness: a request has just failed while a snapshot was stored
C15_FailedWithSnapshotStored ==
  /\ ev.kind = "weather" /\ ~ev.ok
  /\ weather # Null
  /\ error = Msg("Erro ao buscar dados meteorológicos")

\* C16: at most one of the loader, the error text and the weather cards is
\* shown: while loading neither of the other two is, and with an error set
\* the weather cards are not.
C16_OneBlockVisible ==
  /\ Cardinality({b \in {"loader", "error", "weather"} :
                    \/ b = "loader" /\ ShowLoader
                    \/ b = "error" /\ ShowError
                    \/ b = "weather" /\ ShowWeather}) <= 1
  /\ loading => (~ShowError /\ ~ShowWeather)
  /\ error # Null => ~ShowWeather

\* C16 witness: a snapshot and an error are both stored and only the error
\* text is shown
C16_ErrorHidesSnapshot ==
  /\ weather # Null /\ error # Null /\ ~loading
  /\ ShowError /\ ~ShowWeather /\ ~ShowLoader

\* C17: right after a weather fetch has completed with a response, the stored
\* hourly forecast has at most 24 entries, in the order of the response.
C17_HourlyForecastCapped ==
  (ev.kind = "weather" /\ ev.ok) =>
    /\ Len(weather.hourlyForecast) <= HoursRequested
    /\ Len(weather.hourlyForecast) <= Len(ev.body.hours)
    /\ \A i \in 1..Len(weather.hourlyForecast) :
         weather.hourlyForecast[i].datetime = ev.body.hours[i].datetime

\* C18: while a weather request is in flight the loading flag is true.
C18_LoadingWhileInFlight == wfetches # <<>> => loading

\* C19: once overlapping weather fetches have all completed with a response,
\* the stored snapshot is the one of the location requested last.
C19_LatestRequestWins ==
  (ev.kind = "weather" /\ wfetches = <<>> /\ groupOk) =>
    (weather # Null /\ weather.location = lastRequested)

\* C20: after a suggestion was selected or the panel dismissed by a click
\* outside, and until the next input change or focus, the panel shows no
\* suggestion.
C20_DismissedPanelStaysClosed ==
  dismissed => RenderedSuggestions(showSuggestions, suggestions) = <<>>

====
